---- MODULE Spec2Model ----
(***************************************************************************)
(* micro-bench.h: a benchmarking accumulator.  src/micro-bench.h holds two *)
(* copies of the header: the dual-clock one (real + CPU time, lines 1-374) *)
(* and the single-clock one (lines 376-680).  Both are modelled; `variant` *)
(* says which copy the translation unit was built from.                    *)
(*                                                                         *)
(* C doubles are modelled as exact rationals [n, d] in lowest terms, so    *)
(* every statement about a statistic is a statement in exact arithmetic.   *)
(* The clocks are environment state; they never run backwards.             *)
(***************************************************************************)
EXTENDS Integers, Sequences, FiniteSets, TLC

VARIABLES variant, clock_cpu, clock_real, mb, hist, last, ret, out, crashed

vars == <<variant, clock_cpu, clock_real, mb, hist, last, ret, out, crashed>>

(***************************************************************************)
(* Bounds of the exploration.                                              *)
(***************************************************************************)
\* stop calls explored between two clears (caps data.iterations)
MaxStops == 3
\* the clocks are followed for this many half seconds
MaxElapse == 2

(***************************************************************************)
(* Platform constants of <time.h>.                                         *)
(***************************************************************************)
CLOCKS_PER_SEC == 1000000
NSEC_PER_SEC == 1000000000

\* how far the clocks move between two observations: half a second
CpuQuantum == CLOCKS_PER_SEC \div 2
RealQuantum == NSEC_PER_SEC \div 2

(***************************************************************************)
(* double arithmetic, exact.                                               *)
(***************************************************************************)
Abs(x) == IF x < 0 THEN -x ELSE x

RECURSIVE GCD(_, _)
GCD(a, b) == IF b = 0 THEN a ELSE GCD(b, a % b)

\* the double n/d, d > 0
Rat(n, d) == LET g == GCD(Abs(n), d) IN [n |-> n \div g, d |-> d \div g]

Zero == [n |-> 0, d |-> 1]

RAdd(a, b) == Rat(a.n * b.d + b.n * a.d, a.d * b.d)
RSub(a, b) == Rat(a.n * b.d - b.n * a.d, a.d * b.d)
RMul(a, b) == Rat(a.n * b.n, a.d * b.d)
\* a / k for an integer k > 0 (iterations, CLOCKS_PER_SEC, 1e9)
RDivInt(a, k) == Rat(a.n, a.d * k)
RLess(a, b) == a.n * b.d < b.n * a.d
RLeq(a, b) == a.n * b.d <= b.n * a.d

(***************************************************************************)
(* The structs.                                                            *)
(***************************************************************************)
NULL == "NULL"
MB == "&mb"
Ptrs == {NULL, MB}

\* (MicroBenchData){0}, dual-clock copy
ZeroData ==
  [min_cpu |-> Zero, min_real |-> Zero, max_cpu |-> Zero, max_real |-> Zero,
   sum_cpu |-> Zero, sum_real |-> Zero, mean_cpu |-> Zero, mean_real |-> Zero,
   M2_cpu |-> Zero, M2_real |-> Zero,
   variance_cpu |-> Zero, variance_real |-> Zero, iterations |-> 0]

\* (struct timespec){0}
ZeroTimespec == [tv_sec |-> 0, tv_nsec |-> 0]

\* MicroBench mb = {0}, dual-clock copy
ZeroBench ==
  [data |-> ZeroData, start_time_cpu |-> 0, start_time_real |-> ZeroTimespec]

\* (MicroBenchData){0}, single-clock copy
ZeroData1 ==
  [min |-> Zero, max |-> Zero, sum |-> Zero, mean |-> Zero, M2 |-> Zero,
   variance |-> Zero, iterations |-> 0]

\* MicroBench mb = {0}, single-clock copy
ZeroBench1 == [data |-> ZeroData1, start_time |-> 0]

Dual == variant = "dual"
Single == variant = "single"

\* nothing committed, no start seen: the history since creation or the last clear
\* (started: a start was called; pending: a start waits for its stop; paired:
\* every stop so far ended a pending start; nstops: the stop calls made;
\* samples: what the stop calls committed, kept in ascending order of the
\* CPU-time sample, then of the real-time one; their true minimum, maximum,
\* sum and variance do not depend on the order they came in)
NoHist ==
  [started |-> FALSE, pending |-> FALSE, paired |-> TRUE, nstops |-> 0,
   samples |-> <<>>]

\* the order the committed samples are kept in
Before(a, b) ==
  \/ RLess(a.cpu, b.cpu)
  \/ a.cpu = b.cpu /\ "real" \in DOMAIN a /\ RLeq(a.real, b.real)
  \/ a.cpu = b.cpu /\ "real" \notin DOMAIN a

RECURSIVE Insert(_, _)
Insert(seq, x) ==
  IF seq = <<>> THEN <<x>>
  ELSE IF Before(x, Head(seq)) THEN <<x>> \o seq
  ELSE <<Head(seq)>> \o Insert(Tail(seq), x)

Init ==
  /\ variant \in {"dual", "single"}
  /\ clock_cpu = 0
  /\ clock_real = ZeroTimespec
  /\ mb = IF variant = "dual" THEN ZeroBench ELSE ZeroBench1
  /\ hist = NoHist
  /\ last = [op |-> "none", arg |-> MB, fn |-> "none", status |-> "returned",
             pre |-> IF variant = "dual" THEN ZeroBench ELSE ZeroBench1,
             pending |-> FALSE]
  /\ ret = <<>>
  /\ out = <<>>
  /\ crashed = FALSE

\* the record of the call that has just been made: the function, its mb
\* argument, the reporter handed to it, how it ended, and what it found (the
\* struct as it was, and whether a start was waiting for its stop)
Call(op, p, fn, status) ==
  [op |-> op, arg |-> p, fn |-> fn, status |-> status, pre |-> mb,
   pending |-> hist.pending]

(***************************************************************************)
(* Time passes: the monotonic clock moves on by half a second, the process *)
(* CPU clock by as much or (coarse resolution, or the process slept) not   *)
(* at all.                                                                 *)
(***************************************************************************)
\* the half seconds the monotonic clock has counted
Elapsed(ts) ==
  ts.tv_sec * (NSEC_PER_SEC \div RealQuantum) + ts.tv_nsec \div RealQuantum

Elapse ==
  /\ ~crashed
  /\ Elapsed(clock_real) < MaxElapse
  /\ \E busy \in BOOLEAN :
       clock_cpu' = IF busy THEN clock_cpu + CpuQuantum ELSE clock_cpu
  /\ clock_real' =
       [tv_sec |-> clock_real.tv_sec
                     + (clock_real.tv_nsec + RealQuantum) \div NSEC_PER_SEC,
        tv_nsec |-> (clock_real.tv_nsec + RealQuantum) % NSEC_PER_SEC]
  /\ UNCHANGED <<variant, mb, hist, last, ret, out, crashed>>

(***************************************************************************)
(* micro_bench_start                                                       *)
(***************************************************************************)
\* a start that also begins the sums afresh
start_body_bug(m, now_cpu, now_real) ==
  [m EXCEPT !.start_time_cpu = now_cpu, !.start_time_real = now_real,
            !.data.sum_cpu = Zero, !.data.sum_real = Zero]

\* dual-clock copy: start_time_cpu = clock(); clock_gettime(.., &start_time_real)
start_body(m, now_cpu, now_real) ==
  [m EXCEPT !.start_time_cpu = now_cpu, !.start_time_real = now_real]

\* single-clock copy: start_time = clock()
start_body1(m, now_cpu) == [m EXCEPT !.start_time = now_cpu]

micro_bench_start(p) ==
  /\ ~crashed
  /\ mb' = IF p = NULL THEN mb
           ELSE IF Dual THEN start_body(mb, clock_cpu, clock_real)
           ELSE start_body1(mb, clock_cpu)
  /\ hist' = IF p = NULL THEN hist
             ELSE [hist EXCEPT !.started = TRUE, !.pending = TRUE]
  /\ last' = Call("micro_bench_start", p, "none", "returned")
  /\ ret' = <<>>
  /\ out' = <<>>
  /\ UNCHANGED <<variant, clock_cpu, clock_real, crashed>>

(***************************************************************************)
(* micro_bench_stop: the statements of the update, one operator each.  The *)
(* two copies of the header hold the same statements; the dual-clock copy  *)
(* holds them once per time source.                                        *)
(***************************************************************************)
\* (double)(stop_time_cpu - mb->start_time_cpu) / CLOCKS_PER_SEC
diff_cpu_of(stop_time_cpu, start_time_cpu) ==
  RDivInt(Rat(stop_time_cpu - start_time_cpu, 1), CLOCKS_PER_SEC)

\* (stop.tv_sec - start.tv_sec) + (stop.tv_nsec - start.tv_nsec) / 1e9
diff_real_of(stop_time_real, start_time_real) ==
  RAdd(Rat(stop_time_real.tv_sec - start_time_real.tv_sec, 1),
       RDivInt(Rat(stop_time_real.tv_nsec - start_time_real.tv_nsec, 1),
               NSEC_PER_SEC))

\* if (diff < min || min == 0.0) min = diff;
min_update(min, diff) ==
  IF RLess(diff, min) \/ min = Zero THEN diff ELSE min

\* the comparison the wrong way round
max_update_bug(max, diff) ==
  IF RLess(diff, max) THEN diff ELSE max

\* if (diff > max) max = diff;
max_update(max, diff) ==
  IF RLess(max, diff) THEN diff ELSE max

\* sum += diff;
sum_update(sum, diff) == RAdd(sum, diff)

\* iterations++;
iterations_update(iterations) == iterations + 1

\* the delta divided by one too many
mean_update_bug(mean, diff, iterations) ==
  RAdd(mean, RDivInt(RSub(diff, mean), iterations + 1))

\* delta = diff - mean; mean += delta / iterations;   (iterations already bumped)
mean_update(mean, diff, iterations) ==
  RAdd(mean, RDivInt(RSub(diff, mean), iterations))

\* delta squared: the old mean used twice
M2_update_bug(M2, old_mean, new_mean, diff) ==
  RAdd(M2, RMul(RSub(diff, old_mean), RSub(diff, old_mean)))

\* delta2 = diff - mean; M2 += delta * delta2;   (delta from the old mean)
M2_update(M2, old_mean, new_mean, diff) ==
  RAdd(M2, RMul(RSub(diff, old_mean), RSub(diff, new_mean)))

\* variance = M2 / iterations;
variance_update(M2, iterations) == RDivInt(M2, iterations)

\* the body of micro_bench_stop past the null check, dual-clock copy
stop_body(m, stop_time_cpu, stop_time_real) ==
  LET d == m.data
      diff_cpu == diff_cpu_of(stop_time_cpu, m.start_time_cpu)
      diff_real == diff_real_of(stop_time_real, m.start_time_real)
      n == iterations_update(d.iterations)
      mean_cpu == mean_update(d.mean_cpu, diff_cpu, n)
      M2_cpu == M2_update(d.M2_cpu, d.mean_cpu, mean_cpu, diff_cpu)
      mean_real == mean_update(d.mean_real, diff_real, n)
      M2_real == M2_update(d.M2_real, d.mean_real, mean_real, diff_real)
  IN [m EXCEPT !.data =
        [min_cpu |-> min_update(d.min_cpu, diff_cpu),
         min_real |-> min_update(d.min_real, diff_real),
         max_cpu |-> max_update(d.max_cpu, diff_cpu),
         max_real |-> max_update(d.max_real, diff_real),
         sum_cpu |-> sum_update(d.sum_cpu, diff_cpu),
         sum_real |-> sum_update(d.sum_real, diff_real),
         iterations |-> n,
         mean_cpu |-> mean_cpu,
         M2_cpu |-> M2_cpu,
         variance_cpu |-> variance_update(M2_cpu, n),
         mean_real |-> mean_real,
         M2_real |-> M2_real,
         variance_real |-> variance_update(M2_real, n)]]

\* the body of micro_bench_stop past the null check, single-clock copy
stop_body1(m, stop_time) ==
  LET d == m.data
      diff == diff_cpu_of(stop_time, m.start_time)
      n == iterations_update(d.iterations)
      mean == mean_update(d.mean, diff, n)
      M2 == M2_update(d.M2, d.mean, mean, diff)
  IN [m EXCEPT !.data =
        [min |-> min_update(d.min, diff),
         max |-> max_update(d.max, diff),
         sum |-> sum_update(d.sum, diff),
         iterations |-> n,
         mean |-> mean,
         M2 |-> M2,
         variance |-> variance_update(M2, n)]]

\* what one stop call committed: the elapsed sample of each time source
Sample(m, stop_time_cpu, stop_time_real) ==
  IF Dual
  THEN [cpu |-> diff_cpu_of(stop_time_cpu, m.start_time_cpu),
        real |-> diff_real_of(stop_time_real, m.start_time_real)]
  ELSE [cpu |-> diff_cpu_of(stop_time_cpu, m.start_time)]

micro_bench_stop(p) ==
  /\ ~crashed
  /\ p # NULL => mb.data.iterations < MaxStops
  /\ mb' = IF p = NULL THEN mb
           ELSE IF Dual THEN stop_body(mb, clock_cpu, clock_real)
           ELSE stop_body1(mb, clock_cpu)
  /\ hist' = IF p = NULL THEN hist
             ELSE [hist EXCEPT
                     !.pending = FALSE,
                     !.paired = @ /\ hist.pending,
                     !.nstops = @ + 1,
                     !.samples = Insert(@, Sample(mb, clock_cpu, clock_real))]
  /\ last' = Call("micro_bench_stop", p, "none", "returned")
  /\ ret' = <<>>
  /\ out' = <<>>
  /\ UNCHANGED <<variant, clock_cpu, clock_real, crashed>>

(***************************************************************************)
(* micro_bench_clear                                                       *)
(***************************************************************************)
\* a clear that forgets the pending start readings
clear_body_bug(m) == [m EXCEPT !.data = ZeroData]

\* dual-clock copy
clear_body(m) ==
  [m EXCEPT !.data = ZeroData, !.start_time_cpu = 0,
            !.start_time_real = ZeroTimespec]

\* single-clock copy
clear_body1(m) == [m EXCEPT !.data = ZeroData1, !.start_time = 0]

micro_bench_clear(p) ==
  /\ ~crashed
  /\ mb' = IF p = NULL THEN mb
           ELSE IF Dual THEN clear_body(mb) ELSE clear_body1(mb)
  /\ hist' = IF p = NULL THEN hist ELSE NoHist
  /\ last' = Call("micro_bench_clear", p, "none", "returned")
  /\ ret' = <<>>
  /\ out' = <<>>
  /\ UNCHANGED <<variant, clock_cpu, clock_real, crashed>>

(***************************************************************************)
(* The getters.  None checks mb: on a null mb the read mb->data.f is        *)
(* undefined behaviour, which the build turns into a crash or into a read  *)
(* of whatever lies at that address.                                       *)
(***************************************************************************)
\* what a read through a null pointer may yield when it does not trap
Garbage == {Rat(1, 1)}

\* double f(MicroBench *mb) { return mb->data.<field>; }
Getter(op, p, value) ==
  /\ ~crashed
  /\ \/ /\ p # NULL
        /\ ret' = <<value>>
        /\ last' = Call(op, p, "none", "returned")
        /\ crashed' = FALSE
     \/ /\ p = NULL
        /\ ret' = <<>>
        /\ last' = Call(op, p, "none", "crashed")
        /\ crashed' = TRUE
     \/ /\ p = NULL
        /\ \E g \in Garbage : ret' = <<g>>
        /\ last' = Call(op, p, "none", "returned")
        /\ crashed' = FALSE
  /\ out' = <<>>
  /\ UNCHANGED <<variant, clock_cpu, clock_real, mb, hist>>

micro_bench_get_min_real(p) ==
  Dual /\ Getter("micro_bench_get_min_real", p, mb.data.min_real)
micro_bench_get_min_cpu(p) ==
  Dual /\ Getter("micro_bench_get_min_cpu", p, mb.data.min_cpu)
micro_bench_get_max_real(p) ==
  Dual /\ Getter("micro_bench_get_max_real", p, mb.data.max_real)
micro_bench_get_max_cpu(p) ==
  Dual /\ Getter("micro_bench_get_max_cpu", p, mb.data.max_cpu)
micro_bench_get_mean_real(p) ==
  Dual /\ Getter("micro_bench_get_mean_real", p, mb.data.mean_real)
micro_bench_get_mean_cpu(p) ==
  Dual /\ Getter("micro_bench_get_mean_cpu", p, mb.data.mean_cpu)
micro_bench_get_sum_real(p) ==
  Dual /\ Getter("micro_bench_get_sum_real", p, mb.data.max_real)
micro_bench_get_sum_cpu(p) ==
  Dual /\ Getter("micro_bench_get_sum_cpu", p, mb.data.max_cpu)
micro_bench_get_variance_real(p) ==
  Dual /\ Getter("micro_bench_get_variance_real", p, mb.data.variance_real)
micro_bench_get_variance_cpu(p) ==
  Dual /\ Getter("micro_bench_get_variance_cpu", p, mb.data.variance_cpu)

\* the single-clock copy
micro_bench_get_min(p) ==
  Single /\ Getter("micro_bench_get_min", p, mb.data.min)
micro_bench_get_max(p) ==
  Single /\ Getter("micro_bench_get_max", p, mb.data.max)
micro_bench_get_mean(p) ==
  Single /\ Getter("micro_bench_get_mean", p, mb.data.mean)
micro_bench_get_sum(p) ==
  Single /\ Getter("micro_bench_get_sum", p, mb.data.max)
micro_bench_get_variance(p) ==
  Single /\ Getter("micro_bench_get_variance", p, mb.data.variance)

(***************************************************************************)
(* The reporters.  A line of output is the tuple of its cells: a piece of   *)
(* literal text, or a number as printf formats it.                         *)
(***************************************************************************)
RECURSIVE Pow10(_)
Pow10(k) == IF k = 0 THEN 1 ELSE 10 * Pow10(k - 1)

\* printf("%.<digits>f", v) for v >= 0: v rounded to that many decimals, kept
\* as the integer the decimal digits spell
Fmt(v, digits) ==
  LET whole == v.n \div v.d
      rest == v.n % v.d
  IN [digits |-> digits,
      scaled |-> whole * Pow10(digits)
                   + (2 * rest * Pow10(digits) + v.d) \div (2 * v.d)]

\* printf("%ld", n)
FmtInt(n) == [digits |-> 0, scaled |-> n]

\* "%f": six decimals
F6(v) == Fmt(v, 6)
\* "%1.7f"
F7(v) == Fmt(v, 7)

\* dual-clock copy
micro_bench_default_reporter_stdout(data) ==
  << <<"">>,
     <<"/---------------------------------------\\">>,
     <<"|         Micro benchmark report        |">>,
     <<"|---------------------------------------|">>,
     <<"|   ////   |     real     |     CPU     |">>,
     <<"|---------------------------------------|">>,
     <<"min", F7(data.min_real), F7(data.min_cpu)>>,
     <<"max", F7(data.max_real), F7(data.max_cpu)>>,
     <<"sum", F7(data.sum_real), F7(data.sum_cpu)>>,
     <<"mean", F7(data.mean_real), F7(data.mean_cpu)>>,
     <<"var", F7(data.variance_real), F7(data.variance_cpu)>>,
     <<"|---------------------------------------|">>,
     <<"iterations", FmtInt(data.iterations)>>,
     <<"\\---------------------------------------/">> >>

\* dual-clock copy: the header names nine fields, the format writes eleven
micro_bench_default_reporter_csv(data) ==
  << <<"min_real", "min_cpu", "sum_real", "sum_cpu", "mean_real", "mean_cpu",
       "variance_real", "variance_cpu", "iterations">>,
     <<F6(data.min_real), F6(data.min_cpu), F6(data.max_real), F6(data.max_cpu),
       F6(data.sum_real), F6(data.sum_cpu), F6(data.mean_real),
       F6(data.mean_cpu), F6(data.variance_real), F6(data.variance_cpu),
       FmtInt(data.iterations)>> >>

\* single-clock copy
micro_bench_default_reporter_stdout1(data) ==
  << <<"">>,
     <<"/------------------------\\">>,
     <<"| Micro benchmark report |">>,
     <<"|------------------------|">>,
     <<"min", F7(data.min)>>,
     <<"max", F7(data.max)>>,
     <<"sum", F7(data.sum)>>,
     <<"mean", F7(data.mean)>>,
     <<"var", F7(data.variance)>>,
     <<"it", FmtInt(data.iterations)>>,
     <<"\\------------------------/">> >>

\* single-clock copy: one data line, no header line
micro_bench_default_reporter_csv1(data) ==
  << <<F6(data.min), F6(data.max), F6(data.sum), F6(data.mean),
       F6(data.variance), FmtInt(data.iterations)>> >>

STDOUT == "micro_bench_default_reporter_stdout"
CSV == "micro_bench_default_reporter_csv"
Reporters == {STDOUT, CSV}

\* reporter(data), for the two reporters the header provides
Run(reporter, data) ==
  IF reporter = STDOUT
  THEN IF Dual THEN micro_bench_default_reporter_stdout(data)
       ELSE micro_bench_default_reporter_stdout1(data)
  ELSE IF Dual THEN micro_bench_default_reporter_csv(data)
       ELSE micro_bench_default_reporter_csv1(data)

\* reporter(&mb->data): no null check, so a null mb hands the reporter the
\* address of a member of no object, and the reporter reads through it
ReportWith(op, p, reporter) ==
  /\ ~crashed
  /\ \/ /\ p # NULL
        /\ out' = Run(reporter, mb.data)
        /\ last' = Call(op, p, reporter, "returned")
        /\ crashed' = FALSE
     \/ /\ p = NULL
        /\ out' = <<>>
        /\ last' = Call(op, p, reporter, "crashed")
        /\ crashed' = TRUE
     \/ /\ p = NULL
        /\ out' = Run(reporter, IF Dual THEN ZeroData ELSE ZeroData1)
        /\ last' = Call(op, p, reporter, "returned")
        /\ crashed' = FALSE
  /\ ret' = <<>>
  /\ UNCHANGED <<variant, clock_cpu, clock_real, mb, hist>>

micro_bench_report_with(p, reporter) ==
  ReportWith("micro_bench_report_with", p, reporter)

\* micro_bench_report_with(mb, micro_bench_default_reporter_stdout)
micro_bench_report(p) == ReportWith("micro_bench_report", p, STDOUT)

Next ==
  \/ Elapse
  \/ \E p \in Ptrs : micro_bench_start(p)
  \/ \E p \in Ptrs : micro_bench_stop(p)
  \/ \E p \in Ptrs : micro_bench_clear(p)
  \/ \E p \in Ptrs : micro_bench_get_min_real(p)
  \/ \E p \in Ptrs : micro_bench_get_min_cpu(p)
  \/ \E p \in Ptrs : micro_bench_get_max_real(p)
  \/ \E p \in Ptrs : micro_bench_get_max_cpu(p)
  \/ \E p \in Ptrs : micro_bench_get_mean_real(p)
  \/ \E p \in Ptrs : micro_bench_get_mean_cpu(p)
  \/ \E p \in Ptrs : micro_bench_get_sum_real(p)
  \/ \E p \in Ptrs : micro_bench_get_sum_cpu(p)
  \/ \E p \in Ptrs : micro_bench_get_variance_real(p)
  \/ \E p \in Ptrs : micro_bench_get_variance_cpu(p)
  \/ \E p \in Ptrs : micro_bench_get_min(p)
  \/ \E p \in Ptrs : micro_bench_get_max(p)
  \/ \E p \in Ptrs : micro_bench_get_mean(p)
  \/ \E p \in Ptrs : micro_bench_get_sum(p)
  \/ \E p \in Ptrs : micro_bench_get_variance(p)
  \/ \E p \in Ptrs : micro_bench_report(p)
  \/ \E p \in Ptrs, reporter \in Reporters : micro_bench_report_with(p, reporter)

Spec == Init /\ [][Next]_vars

(***************************************************************************)
(* What the properties below speak of.                                     *)
(***************************************************************************)
\* the time sources this build tracks
Sources == IF Dual THEN {"cpu", "real"} ELSE {"cpu"}

\* the accumulator of one time source
Acc(d, src) ==
  IF Single
  THEN [min |-> d.min, max |-> d.max, sum |-> d.sum, mean |-> d.mean,
        M2 |-> d.M2, variance |-> d.variance]
  ELSE IF src = "cpu"
  THEN [min |-> d.min_cpu, max |-> d.max_cpu, sum |-> d.sum_cpu,
        mean |-> d.mean_cpu, M2 |-> d.M2_cpu, variance |-> d.variance_cpu]
  ELSE [min |-> d.min_real, max |-> d.max_real, sum |-> d.sum_real,
        mean |-> d.mean_real, M2 |-> d.M2_real, variance |-> d.variance_real]

\* the samples of one source committed since the last clear
SamplesOf(src) == [i \in 1..Len(hist.samples) |-> hist.samples[i][src]]

RECURSIVE RSum(_)
RSum(xs) == IF xs = <<>> THEN Zero ELSE RAdd(Head(xs), RSum(Tail(xs)))

\* least and greatest element of a non-empty sequence
TrueMin(xs) == CHOOSE x \in {xs[i] : i \in 1..Len(xs)} :
                 \A j \in 1..Len(xs) : RLeq(x, xs[j])
TrueMax(xs) == CHOOSE x \in {xs[i] : i \in 1..Len(xs)} :
                 \A j \in 1..Len(xs) : RLeq(xs[j], x)

\* two-pass population variance: sum of (x - mean)^2 over N
PopVariance(xs) ==
  LET N == Len(xs)
      mean == RDivInt(RSum(xs), N)
      sq == [i \in 1..N |-> RMul(RSub(xs[i], mean), RSub(xs[i], mean))]
  IN RDivInt(RSum(sq), N)

\* a real (non-null) call of op has just returned
Called(op) == last.op = op /\ last.arg # NULL

\* the sample the last stop call committed to src
Committed(src) == RSub(Acc(mb.data, src).sum, Acc(last.pre.data, src).sum)

(***************************************************************************)
(* C1: after N >= 1 committed samples, each >= 0 and 0.0 a valid sample,    *)
(* the min field of every time source is the true minimum of that source's *)
(* samples.  (Stated for start/stop pairs only, the intended use.)         *)
(***************************************************************************)
C1_MinIsTrueMinimum ==
  (hist.nstops >= 1 /\ hist.paired) =>
    \A src \in Sources :
      Acc(mb.data, src).min = TrueMin(SamplesOf(src))

(***************************************************************************)
(* C2: a stop with no start since creation or the last clear signals       *)
(* InvalidState and leaves every accumulator field as it was.              *)
(***************************************************************************)
C2_StopWithoutStartRejected ==
  (Called("micro_bench_stop") /\ ~hist.started) =>
    /\ last.status = "InvalidState"
    /\ mb.data = last.pre.data

(***************************************************************************)
(* C3: get_sum of a time source returns the sum field, the running sum of  *)
(* that source's samples committed since the last clear.                   *)
(***************************************************************************)
C3_GetSumReturnsSum ==
  /\ Called("micro_bench_get_sum_real") =>
       ret = <<mb.data.sum_real>> /\ mb.data.sum_real = RSum(SamplesOf("real"))
  /\ Called("micro_bench_get_sum_cpu") =>
       ret = <<mb.data.sum_cpu>> /\ mb.data.sum_cpu = RSum(SamplesOf("cpu"))
  /\ Called("micro_bench_get_sum") =>
       ret = <<mb.data.sum>> /\ mb.data.sum = RSum(SamplesOf("cpu"))

(***************************************************************************)
(* C4: after N >= 1 stop calls since the last clear, for every time source *)
(* mean = sum / iterations, with sum the total of the samples and          *)
(* iterations = N.                                                         *)
(***************************************************************************)
C4_MeanIsSumOverIterations ==
  hist.nstops >= 1 =>
    /\ mb.data.iterations = hist.nstops
    /\ \A src \in Sources :
         /\ Acc(mb.data, src).sum = RSum(SamplesOf(src))
         /\ Acc(mb.data, src).mean
              = RDivInt(Acc(mb.data, src).sum, mb.data.iterations)

\* three start/stop pairs, their samples not all alike
C4_Witness ==
  /\ hist.nstops >= 3
  /\ hist.paired
  /\ \E src \in Sources :
       /\ TrueMin(SamplesOf(src)) # TrueMax(SamplesOf(src))
       /\ Acc(mb.data, src).mean # Zero

(***************************************************************************)
(* C5: after N >= 1 stop calls since the last clear, for every time source *)
(* variance = M2 / iterations, variance >= 0, and variance is the          *)
(* population variance of the committed samples.                           *)
(***************************************************************************)
C5_VarianceIsPopulationVariance ==
  hist.nstops >= 1 =>
    \A src \in Sources :
      /\ Acc(mb.data, src).variance
           = RDivInt(Acc(mb.data, src).M2, mb.data.iterations)
      /\ RLeq(Zero, Acc(mb.data, src).variance)
      /\ Acc(mb.data, src).variance = PopVariance(SamplesOf(src))

\* three start/stop pairs with a spread: a variance that is not zero
C5_Witness ==
  /\ hist.nstops >= 3
  /\ hist.paired
  /\ \E src \in Sources : RLess(Zero, Acc(mb.data, src).variance)

(***************************************************************************)
(* C6: after N >= 1 committed samples the max field of every time source   *)
(* is the true maximum of that source's samples, and after the very first  *)
(* sample x both min = x and max = x.                                      *)
(***************************************************************************)
C6_MaxIsTrueMaximum ==
  hist.nstops >= 1 =>
    \A src \in Sources :
      /\ Acc(mb.data, src).max = TrueMax(SamplesOf(src))
      /\ hist.nstops = 1 =>
           /\ Acc(mb.data, src).min = SamplesOf(src)[1]
           /\ Acc(mb.data, src).max = SamplesOf(src)[1]

\* a start/stop pair has just committed a sample smaller than the maximum
C6_Witness ==
  /\ Called("micro_bench_stop")
  /\ hist.nstops >= 2
  /\ hist.paired
  /\ \E src \in Sources : RLess(Committed(src), Acc(mb.data, src).max)

(***************************************************************************)
(* C7: from any reachable state, with or without a pending start, clear    *)
(* yields exactly the initial cleared state (so clearing twice is clearing *)
(* once).                                                                  *)
(***************************************************************************)
C7_ClearYieldsInitialState ==
  Called("micro_bench_clear") =>
    /\ mb = IF Dual THEN ZeroBench ELSE ZeroBench1
    /\ mb.data.iterations = 0

\* a clear of a benchmark that held samples and a pending start
C7_Witness ==
  /\ Called("micro_bench_clear")
  /\ last.pre.data.iterations >= 2
  /\ last.pending
  /\ last.pre # mb

(***************************************************************************)
(* C8: every public operation called with a null benchmark is a no-op: it  *)
(* returns at once, reads nothing through the pointer, changes nothing.    *)
(***************************************************************************)
C8_NullIsNoOp ==
  last.arg = NULL =>
    /\ last.status = "returned"
    /\ ~crashed
    /\ mb = last.pre
    /\ out = <<>>

\* the value the CSV data line owes to the header name at the same position
CsvCell(d, name) ==
  IF name = "iterations" THEN FmtInt(d.iterations) ELSE F6(d[name])

(***************************************************************************)
(* C9: the CSV reporter writes one header line naming the fields and one   *)
(* data line with as many values as the header has names, each the         *)
(* snapshot field named at that position.                                  *)
(***************************************************************************)
C9_CsvHeaderMatchesData ==
  (last.fn = CSV /\ last.arg # NULL) =>
    /\ Len(out) = 2
    /\ Len(out[2]) = Len(out[1])
    /\ \A i \in 1..Len(out[1]) : out[2][i] = CsvCell(mb.data, out[1][i])

(***************************************************************************)
(* C10: start changes only the pending start readings, also when a start   *)
(* is already pending; iterations is the number of stop calls since the    *)
(* last clear, and each stop commits one sample to every time source.      *)
(***************************************************************************)
C10_StartWritesOnlyPendingReadings ==
  /\ Called("micro_bench_start") =>
       mb.data = last.pre.data
  /\ mb.data.iterations = hist.nstops
  /\ Called("micro_bench_stop") =>
       /\ mb.data.iterations = last.pre.data.iterations + 1
       /\ \A src \in Sources :
            \E i \in 1..Len(hist.samples) :
              SamplesOf(src)[i] = Committed(src)

\* a second start overwrote the readings of a start still waiting for its
\* stop, on a benchmark that already holds samples
C10_Witness ==
  /\ Called("micro_bench_start")
  /\ last.pending
  /\ last.pre # mb
  /\ mb.data.iterations >= 1
====
